---------------------------- MODULE Spec2Model ----------------------------
(***************************************************************************)
(* yt-parallel (src/yt_parallel/main.py): download two subtitle tracks,    *)
(* extract their cues, sanitize the cue text, phonemize the primary text,  *)
(* merge both tracks index by index into one HTML document.                *)
(*                                                                         *)
(* Text is a sequence of tokens.  One token is one character, except "T",  *)
(* which stands for one occurrence of the timing prefix the cue pattern    *)
(* looks for: \d{2}:\d{2}:\d{2}\.\d{3} followed by " --> ".                *)
(*   "nl" line feed     "sp" space        "lt" <      "gt" >               *)
(*   "q1" '             "q2" double quote                                  *)
(*   "a" "b" "c" "i"    ordinary characters                                *)
(***************************************************************************)
EXTENDS Integers, Sequences, FiniteSets, TLC

VARIABLES
    pc,            \* position of the process in main()
    argc,          \* len(sys.argv) of this run (0 before main has looked at it)
    exit_status,   \* -1 while the process runs, else its exit status
    TEMP_DIR,      \* global TEMP_DIR: "None" or the scratch directory's name
    TEMP_FILES,    \* global TEMP_FILES: the list of registered paths
    files,         \* the scratch directory: existing path |-> content
    produced,      \* history: the paths the downloader wrote
    dl,            \* history: how the downloader ended ("none" before it ran)
    l2_path,       \* merge_vtt_to_html's file2_path ("None" when absent)
    cues1, cues2,  \* the cue lists of merge_vtt_to_html
    counted,       \* history: "no", "pass", "fail": the cue-count check
    i,             \* loop index of merge_vtt_to_html (0-based)
    html_content,  \* the list html_content of merge_vtt_to_html
    ipaLog,        \* history: the calls of subprocess.run(['espeak', ...])
    removed,       \* history: what the exit handler tried to remove
    stdout,        \* what was written to standard output, one entry per write
    stderr,        \* what was written to standard error, one entry per write
    sanIn, sanOut, sanPc,          \* the sanitizer applied to a text
    exIn, exCues, exTail, exOut, exPc   \* the cue pattern applied to a track

vars == <<pc, argc, exit_status, TEMP_DIR, TEMP_FILES, files, produced, dl,
          l2_path, cues1, cues2, counted, i, html_content, ipaLog, removed,
          stdout, stderr, sanIn, sanOut, sanPc, exIn, exCues, exTail, exOut,
          exPc>>

mainVars == <<pc, argc, exit_status, TEMP_DIR, TEMP_FILES, files, produced,
              dl, l2_path, cues1, cues2, counted, i, html_content, ipaLog,
              removed, stdout, stderr>>
sanVars == <<sanIn, sanOut, sanPc>>
exVars == <<exIn, exCues, exTail, exOut, exPc>>

---------------------------------------------------------------------------
(* Bounds *)

\* cues per track in a run of main
MaxCues == 2
\* cues of a track given to the cue pattern alone
MaxExCues == 3
\* tokens of a text given to the sanitizer alone
MaxSanLen == 4

---------------------------------------------------------------------------
(* Strings *)

Range(s) == {s[k] : k \in 1..Len(s)}

Min(m, n) == IF m < n THEN m ELSE n

\* all sequences over S of length at most n
RECURSIVE SeqsUpTo(_, _)
SeqsUpTo(S, n) ==
    IF n = 0 THEN {<<>>}
    ELSE LET shorter == SeqsUpTo(S, n - 1)
         IN  shorter \cup {Append(s, x) : s \in shorter, x \in S}

\* what Python's str.strip() with no argument removes
Whitespace == {"sp", "nl"}

RECURSIVE LStripChars(_, _)
LStripChars(s, chars) ==
    IF s # <<>> /\ Head(s) \in chars THEN LStripChars(Tail(s), chars) ELSE s

RECURSIVE RStripChars(_, _)
RStripChars(s, chars) ==
    IF s # <<>> /\ s[Len(s)] \in chars
    THEN RStripChars(SubSeq(s, 1, Len(s) - 1), chars)
    ELSE s

\* str.strip(chars)
StripChars(s, chars) == RStripChars(LStripChars(s, chars), chars)

\* str.strip()
Strip(s) == StripChars(s, Whitespace)

\* The end of the match of <.*?> that starts at p (s[p] = "lt"): the first "gt"
\* after p, unless a line feed comes before it ('.' matches no line feed here);
\* 0 when the pattern does not match at p.
RECURSIVE TagEnd(_, _)
TagEnd(s, j) ==
    IF j > Len(s) \/ s[j] = "nl" THEN 0
    ELSE IF s[j] = "gt" THEN j
    ELSE TagEnd(s, j + 1)

\* re.sub(r'<.*?>', '', s), scanning from position p
RECURSIVE SubTagsFrom(_, _)
SubTagsFrom(s, p) ==
    IF p > Len(s) THEN <<>>
    ELSE IF s[p] = "lt" /\ TagEnd(s, p + 1) # 0
         THEN SubTagsFrom(s, TagEnd(s, p + 1) + 1)
         ELSE <<s[p]>> \o SubTagsFrom(s, p + 1)

\* clean_text_l1 / clean_text_l2: re.sub(r'<.*?>', '', text.strip())
clean_text(text) == SubTagsFrom(Strip(text), 1)

\* re.sub(r'\s+', ' ', s): every maximal run of whitespace becomes one space
RECURSIVE CollapseWs(_)
CollapseWs(s) ==
    IF s = <<>> THEN <<>>
    ELSE IF Head(s) \in Whitespace
         THEN <<"sp">> \o CollapseWs(LStripChars(s, Whitespace))
         ELSE <<Head(s)>> \o CollapseWs(Tail(s))

\* generate_ipa's treatment of espeak's standard output
NormalizeIpa(out) ==
    LET ipa == StripChars(StripChars(Strip(out), {"q1"}), {"q2"})
    IN  Strip(CollapseWs(ipa))

---------------------------------------------------------------------------
(* The cue pattern *)

\* first position >= j of s holding a line feed, 0 if none
RECURSIVE NextNl(_, _)
NextNl(s, j) ==
    IF j > Len(s) THEN 0
    ELSE IF s[j] = "nl" THEN j
    ELSE NextNl(s, j + 1)

\* (.*?)(?=\n\n|\Z) from position k: the first position >= k that is the end
\* of s or is followed by two line feeds
RECURSIVE TextEnd(_, _)
TextEnd(s, k) ==
    IF k > Len(s) THEN k
    ELSE IF k + 1 <= Len(s) /\ s[k] = "nl" /\ s[k + 1] = "nl" THEN k
    ELSE TextEnd(s, k + 1)

\* a faulty variant: the cue text stops at the first line feed
TextEndAtLine(s, k) ==
    IF NextNl(s, k) = 0 THEN Len(s) + 1 ELSE NextNl(s, k)

\* the position after the text of the cue whose header line ends before k
CueTextEnd(s, k) == TextEnd(s, k)

\* cue_pattern.findall(s), scanning from position p: a match starts at a timing
\* prefix that a line feed follows somewhere; the header runs to the first such
\* line feed, the text from there to CueTextEnd; the scan goes on after the text.
RECURSIVE FindAllFrom(_, _)
FindAllFrom(s, p) ==
    IF p > Len(s) THEN <<>>
    ELSE IF s[p] = "T" /\ NextNl(s, p + 1) # 0
         THEN LET h == NextNl(s, p + 1)
                  e == CueTextEnd(s, h + 1)
              IN  <<<<SubSeq(s, p, h), SubSeq(s, h + 1, e - 1)>>>>
                    \o FindAllFrom(s, e)
         ELSE FindAllFrom(s, p + 1)

cue_pattern_findall(s) == FindAllFrom(s, 1)

---------------------------------------------------------------------------
(* The sanitizer alone: a text, sanitized once, then sanitized again *)

SanChars == {"a", "sp", "nl", "lt", "gt"}

SanInit ==
    /\ sanIn \in SeqsUpTo(SanChars, MaxSanLen)
    /\ sanOut = <<>>
    /\ sanPc = "in"

SanitizeOnce ==
    /\ sanPc = "in"
    /\ sanOut' = <<clean_text(sanIn)>>
    /\ sanPc' = "once"
    /\ UNCHANGED <<sanIn, mainVars, exVars>>

SanitizeAgain ==
    /\ sanPc = "once"
    /\ sanOut' = Append(sanOut, clean_text(sanOut[1]))
    /\ sanPc' = "twice"
    /\ UNCHANGED <<sanIn, mainVars, exVars>>

---------------------------------------------------------------------------
(* The cue pattern alone: a well-formed track and what findall returns *)

\* what follows the timing prefix on a header line
ExHeaderRests == {<<>>, <<"a">>}

\* cue texts of one or two non-empty lines (none holds a blank line)
ExTexts ==
    { <<"a">>,
      <<"sp", "b">>,
      <<"a", "nl", "b">>,
      <<"b", "T", "nl", "a">> }

\* non-cue lines before the first cue
ExPreambles == {<<>>, <<"a", "nl">>, <<"a", "nl", "nl">>}

\* a blank line between two cues, or two
ExSeparators == {<<"nl", "nl">>, <<"nl", "nl", "nl">>}

\* after the last cue: end of input at once, after the end of the last line,
\* or after a blank line
ExTails == {<<>>, <<"nl">>, <<"nl", "nl">>}

ExCueSet == [header : {<<"T">> \o r : r \in ExHeaderRests}, text : ExTexts]

\* one cue as it stands in a track: the header line, then the text lines
CueBlock(c) == c.header \o <<"nl">> \o c.text

RECURSIVE JoinCues(_, _)
JoinCues(cs, sep) ==
    IF cs = <<>> THEN <<>>
    ELSE IF Len(cs) = 1 THEN CueBlock(cs[1])
    ELSE CueBlock(cs[1]) \o sep \o JoinCues(Tail(cs), sep)

BuildTrack(pre, cs, sep, tail) ==
    pre \o JoinCues(cs, sep) \o (IF cs = <<>> THEN <<>> ELSE tail)

ExInit ==
    \E pre \in ExPreambles, cs \in SeqsUpTo(ExCueSet, MaxExCues),
       sep \in ExSeparators, tail \in ExTails :
        /\ exIn = BuildTrack(pre, cs, sep, tail)
        /\ exCues = cs
        /\ exTail = (IF cs = <<>> THEN <<>> ELSE tail)
        /\ exOut = <<>>
        /\ exPc = "in"

Extract ==
    /\ exPc = "in"
    /\ exOut' = cue_pattern_findall(exIn)
    /\ exPc' = "done"
    /\ UNCHANGED <<exIn, exCues, exTail, mainVars, sanVars>>

ExIdle == exIn = <<>> /\ exCues = <<>> /\ exTail = <<>> /\ exOut = <<>> /\ exPc = "off"
SanIdle == sanIn = <<>> /\ sanOut = <<>> /\ sanPc = "off"

---------------------------------------------------------------------------
(* A run of main: inputs *)

\* sys.argv[2], sys.argv[3]
l1_code == "da"
l2_code == "en"

\* str.upper() of a language code
Upper(code) == IF code = "da" THEN "DA" ELSE IF code = "en" THEN "EN" ELSE code

\* os.path.join(temp_dir, f'temp.{code}.vtt')
SubPath(code) == IF code = "da" THEN "temp.da.vtt" ELSE "temp.en.vtt"

\* raw cue texts of the primary track: plain; markup then text; markup only;
\* markup around whitespace
PrimaryTexts ==
    { <<"a">>,
      <<"lt", "gt", "c">>,
      <<"lt", "gt">>,
      <<"lt", "gt", "sp", "lt", "gt">> }

\* raw cue texts of the secondary track: plain; markup only
SecondaryTexts == {<<"b">>, <<"lt", "a", "gt">>}

\* a track as the downloader writes it: a preamble, the cues a blank line
\* apart, the last line ended by a line feed
MainTrack(texts) ==
    BuildTrack(<<"a", "nl", "nl">>,
               [k \in 1..Len(texts) |-> [header |-> <<"T", "a">>, text |-> texts[k]]],
               <<"nl", "nl">>, <<"nl">>)

L1Tracks == {MainTrack(ts) : ts \in SeqsUpTo(PrimaryTexts, MaxCues)}

\* the secondary track may also be an empty file
L2Tracks == {MainTrack(ts) : ts \in SeqsUpTo(SecondaryTexts, MaxCues)} \cup {<<>>}

\* the downloader wrote no such file
NoFile == <<"NOFILE">>

\* what espeak writes to its standard output when it exits with status 0
EspeakStdout ==
    { <<"sp", "i", "nl">>,
      <<"q1", "i", "sp", "nl", "i", "q1", "nl">>,
      <<"nl">> }

\* how one subprocess.run(['espeak', ...]) ends: FileNotFoundError,
\* CalledProcessError, another exception, or a result
EspeakResults ==
    {[kind |-> k, out |-> <<>>] : k \in {"missing", "fail", "error"}}
        \cup {[kind |-> "ok", out |-> o] : o \in EspeakStdout}

\* generate_ipa returned before calling espeak
NoCall == [kind |-> "nocall", out |-> <<>>]

Msg(kind, args) == [kind |-> kind, args |-> args]

---------------------------------------------------------------------------
(* A run of main: the code *)

MainInit ==
    /\ pc = "main"
    /\ argc = 0
    /\ exit_status = -1
    /\ TEMP_DIR = "None"
    /\ TEMP_FILES = <<>>
    /\ files = <<>>
    /\ produced = {}
    /\ dl = "none"
    /\ l2_path = "None"
    /\ cues1 = <<>>
    /\ cues2 = <<>>
    /\ counted = "no"
    /\ i = 0
    /\ html_content = <<>>
    /\ ipaLog = <<>>
    /\ removed = [paths |-> <<>>, dir |-> "no"]
    /\ stdout = <<>>
    /\ stderr = <<>>

\* main up to the call of download_subtitles
main_args ==
    /\ pc = "main"
    /\ \E n \in {3, 4} :
        /\ argc' = n
        /\ IF n # 4
           THEN /\ stderr' = stderr \o <<Msg("FATAL_ARGS", <<>>), Msg("USAGE", <<>>),
                                         Msg("EXAMPLE", <<>>)>>
                /\ exit_status' = 1
                /\ pc' = "atexit"
                /\ UNCHANGED TEMP_DIR
           ELSE /\ TEMP_DIR' = "tmpdir"
                /\ stderr' = Append(stderr, Msg("TEMPDIR", <<"tmpdir">>))
                /\ pc' = "download"
                /\ UNCHANGED exit_status
    /\ UNCHANGED <<TEMP_FILES, files, produced, dl, l2_path, cues1, cues2, counted,
                   i, html_content, ipaLog, removed, stdout, sanVars, exVars>>

\* TEMP_FILES.append(l1_path); if l2_path: TEMP_FILES.append(l2_path)
Registered(l1, l2) == IF l2 # "None" THEN <<l1, l2>> ELSE <<l1>>

download_subtitles ==
    /\ pc = "download"
    /\ \E outcome \in {"ok", "fail", "missing"},
          t1 \in L1Tracks \cup {NoFile}, t2 \in L2Tracks \cup {NoFile} :
        LET l1p == SubPath(l1_code)
            l2p == SubPath(l2_code)
            wrote == (IF t1 # NoFile THEN {l1p} ELSE {})
                        \cup (IF t2 # NoFile THEN {l2p} ELSE {})
            begun == Append(stderr, Msg("DOWNLOADING", <<l1_code, l2_code, "url">>))
        IN  /\ outcome = "missing" => wrote = {}
            /\ dl' = outcome
            /\ produced' = wrote
            /\ files' = [p \in wrote |-> IF p = l1p THEN t1 ELSE t2]
            /\ IF outcome = "fail"
               THEN /\ stderr' = Append(begun, Msg("FATAL_DOWNLOAD_FAILED", <<>>))
                    /\ exit_status' = 1
                    /\ pc' = "atexit"
                    /\ UNCHANGED <<TEMP_FILES, l2_path>>
               ELSE IF outcome = "missing"
               THEN /\ stderr' = Append(begun, Msg("FATAL_YTDLP_NOT_FOUND", <<>>))
                    /\ exit_status' = 1
                    /\ pc' = "atexit"
                    /\ UNCHANGED <<TEMP_FILES, l2_path>>
               ELSE IF l1p \notin wrote
               THEN /\ stderr' = begun \o <<Msg("DOWNLOAD_COMPLETE", <<>>),
                                            Msg("FATAL_L1_NOT_FOUND", <<l1_code, l1p>>)>>
                    /\ exit_status' = 1
                    /\ pc' = "atexit"
                    /\ UNCHANGED <<TEMP_FILES, l2_path>>
               ELSE /\ l2_path' = (IF l2p \in wrote THEN l2p ELSE "None")
                    /\ stderr' = begun \o <<Msg("DOWNLOAD_COMPLETE", <<>>)>>
                                   \o (IF l2p \in wrote THEN <<>>
                                       ELSE <<Msg("WARNING_L2_NOT_FOUND", <<l2_code>>)>>)
                    /\ TEMP_FILES' = TEMP_FILES \o Registered(l1p, l2_path')
                    /\ pc' = "merge"
                    /\ UNCHANGED exit_status
    /\ UNCHANGED <<argc, TEMP_DIR, cues1, cues2, counted, i, html_content, ipaLog,
                   removed, stdout, sanVars, exVars>>

\* a faulty variant: one placeholder, whatever the primary track holds
OnePlaceholder(n) == <<<<<<>>, <<>>>>>>

\* [('', '')] * len(cues1)
Placeholders(n) == [k \in 1..n |-> <<<<>>, <<>>>>]

\* a faulty variant: the counts are never compared
CountsAlwaysMatch(n1, n2) == TRUE

\* not (len(cues1) != len(cues2))
CountsMatch(n1, n2) == n1 = n2

\* main's step 3 and merge_vtt_to_html up to its loop: read both files,
\* extract the cues, compare the counts
merge_read ==
    /\ pc = "merge"
    /\ LET content1 == files[SubPath(l1_code)]
           content2 == IF l2_path # "None" THEN files[l2_path] ELSE <<>>
           c1 == cue_pattern_findall(content1)
           c2 == IF content2 # <<>> THEN cue_pattern_findall(content2)
                 ELSE Placeholders(Len(c1))
           merging == Append(stderr, Msg("MERGING", <<>>))
       IN  /\ cues1' = c1
           /\ cues2' = c2
           /\ IF ~CountsMatch(Len(c1), Len(c2))
              THEN /\ stderr' = Append(merging, Msg("FATAL_CUE_COUNTS", <<>>))
                   /\ counted' = "fail"
                   /\ exit_status' = 1
                   /\ pc' = "atexit"
              ELSE /\ stderr' = merging
                   /\ counted' = "pass"
                   /\ pc' = "loop"
                   /\ UNCHANGED exit_status
    /\ i' = 0
    /\ html_content' = <<>>
    /\ UNCHANGED <<argc, TEMP_DIR, TEMP_FILES, files, produced, dl, l2_path, ipaLog,
                   removed, stdout, sanVars, exVars>>

\* a faulty variant: espeak is called for every text
SkipNever(text) == FALSE

\* generate_ipa: if not text: return ""
SkipIpa(text) == text = <<>>

\* a faulty variant: a separator after every block
SeparatorAlways(idx, cue_count) == TRUE

\* if i < cue_count - 1 (written as a sum: cue_count may be 0)
SeparatorAfter(idx, cue_count) == idx + 1 < cue_count

Part(kind, txt) == [kind |-> kind, txt |-> txt]
Elem(kind, parts) == [kind |-> kind, parts |-> parts]

\* paragraph_block between '    <p>' and '</p>': "b" is <b>...</b>, "br" is
\* ' \n        <br> ', "ipa" is <span class="ipa">/.../</span>, "l2" the
\* secondary text
Block(t1, ipa, t2) ==
    (IF t1 # <<>> THEN <<Part("b", t1)>> ELSE <<>>)
    \o (IF ipa # <<>> \/ t2 # <<>> THEN <<Part("br", <<>>)>> ELSE <<>>)
    \o (IF ipa # <<>> THEN <<Part("ipa", ipa)>> ELSE <<>>)
    \o (IF ipa # <<>> /\ t2 # <<>> THEN <<Part("br", <<>>)>> ELSE <<>>)
    \o (IF t2 # <<>> THEN <<Part("l2", t2)>> ELSE <<>>)

\* what generate_ipa returns for a result
IpaText(r) == IF r.kind = "ok" THEN NormalizeIpa(r.out) ELSE <<>>

\* the warning generate_ipa writes for a result, if any
IpaWarning(r) ==
    IF r.kind = "fail" THEN <<Msg("WARNING_ESPEAK_FAILED", <<l1_code, "e.stderr">>)>>
    ELSE IF r.kind = "error" THEN <<Msg("WARNING_IPA_UNEXPECTED", <<"e">>)>>
    ELSE <<>>

\* a faulty variant: a failed call is fatal
IpaFatalOnFailure(r) == r.kind \in {"missing", "fail", "error"}

\* a faulty variant: a missing espeak is one more failed call
IpaNeverFatal(r) == FALSE

\* generate_ipa: except FileNotFoundError: ... sys.exit(1)
IpaFatal(r) == r.kind = "missing"

\* one pass of the loop of merge_vtt_to_html, generate_ipa included
merge_loop ==
    /\ pc = "loop"
    /\ i < Min(Len(cues1), Len(cues2))
    /\ LET clean_text_l1 == clean_text(cues1[i + 1][2])
           clean_text_l2 == clean_text(cues2[i + 1][2])
           cue_count == Len(cues1)
       IN  \E r \in IF SkipIpa(clean_text_l1) THEN {NoCall} ELSE EspeakResults :
            /\ ipaLog' = IF r = NoCall THEN ipaLog
                         ELSE Append(ipaLog, [idx |-> i, text |-> clean_text_l1, res |-> r])
            /\ IF IpaFatal(r)
               THEN /\ stderr' = Append(stderr, Msg("FATAL_ESPEAK_NOT_FOUND", <<>>))
                    /\ exit_status' = 1
                    /\ pc' = "atexit"
                    /\ UNCHANGED <<i, html_content>>
               ELSE LET ipa_text == IpaText(r)
                        block == Elem("p", Block(clean_text_l1, ipa_text, clean_text_l2))
                    IN  /\ stderr' = stderr \o IpaWarning(r)
                        /\ html_content' =
                              html_content \o <<block>>
                                \o (IF SeparatorAfter(i, cue_count)
                                    THEN <<Elem("hr", <<>>)>> ELSE <<>>)
                                \o <<Elem("nl", <<>>)>>
                        /\ i' = i + 1
                        /\ UNCHANGED <<pc, exit_status>>
    /\ UNCHANGED <<argc, TEMP_DIR, TEMP_FILES, files, produced, dl, l2_path, cues1,
                   cues2, counted, removed, stdout, sanVars, exVars>>

\* ''.join(html_content).strip(): the line feed that ends the list goes
RECURSIVE StripBody(_)
StripBody(elems) ==
    IF elems # <<>> /\ elems[Len(elems)].kind = "nl"
    THEN StripBody(SubSeq(elems, 1, Len(elems) - 1))
    ELSE elems

\* html_template: the shell with both codes, and the blocks or the placeholder
Document(blocks) ==
    [lang |-> l2_code,
     title |-> <<Upper(l1_code), Upper(l2_code)>>,
     body |-> IF blocks = <<>> THEN <<Elem("no_cues", <<>>)>> ELSE StripBody(blocks)]

\* the end of merge_vtt_to_html and main's step 4: sys.stdout.write(final_html)
merge_return ==
    /\ pc = "loop"
    /\ i = Min(Len(cues1), Len(cues2))
    /\ stdout' = Append(stdout, Document(html_content))
    /\ exit_status' = 0
    /\ pc' = "atexit"
    /\ UNCHANGED <<argc, TEMP_DIR, TEMP_FILES, files, produced, dl, l2_path, cues1,
                   cues2, counted, i, html_content, ipaLog, removed, stderr,
                   sanVars, exVars>>

\* the exit handler: remove every registered path, then the directory
cleanup_temp_files ==
    /\ pc = "atexit"
    /\ LET left == DOMAIN files \ Range(TEMP_FILES)
       IN  /\ files' = [p \in left |-> files[p]]
           /\ removed' = [paths |-> TEMP_FILES,
                          dir |-> IF TEMP_DIR = "None" THEN "no"
                                  ELSE IF left = {} THEN "removed"
                                  ELSE "not_empty"]
    /\ pc' = "exited"
    /\ UNCHANGED <<argc, exit_status, TEMP_DIR, TEMP_FILES, produced, dl, l2_path,
                   cues1, cues2, counted, i, html_content, ipaLog, stdout, stderr,
                   sanVars, exVars>>

---------------------------------------------------------------------------
(* Specifications *)

Init == MainInit /\ SanIdle /\ ExIdle

Next ==
    \/ main_args
    \/ download_subtitles
    \/ merge_read
    \/ merge_loop
    \/ merge_return
    \/ cleanup_temp_files

Spec == Init /\ [][Next]_vars

MainIdle ==
    /\ pc = "off" /\ argc = 0 /\ exit_status = -1 /\ TEMP_DIR = "None"
    /\ TEMP_FILES = <<>> /\ files = <<>> /\ produced = {} /\ dl = "none"
    /\ l2_path = "None" /\ cues1 = <<>> /\ cues2 = <<>> /\ counted = "no"
    /\ i = 0 /\ html_content = <<>> /\ ipaLog = <<>>
    /\ removed = [paths |-> <<>>, dir |-> "no"] /\ stdout = <<>> /\ stderr = <<>>

SanSpecInit == SanInit /\ MainIdle /\ ExIdle
SanNext == SanitizeOnce \/ SanitizeAgain
SanSpec == SanSpecInit /\ [][SanNext]_vars

ExSpecInit == ExInit /\ MainIdle /\ SanIdle
ExNext == Extract
ExSpec == ExSpecInit /\ [][ExNext]_vars

---------------------------------------------------------------------------
(* What the claims speak of *)

\* the process has left main, by sys.exit or by returning
Exiting == pc \in {"atexit", "exited"}

OfKind(elems, kind) == SelectSeq(elems, LAMBDA e : e.kind = kind)

\* the paragraph blocks of a list of rendered elements, in order
Blocks(elems) == OfKind(elems, "p")

HasPart(block, kind) == \E j \in 1..Len(block.parts) : block.parts[j].kind = kind

\* the texts of a block's parts of one kind, in order
PartTexts(block, kind) ==
    LET ps == SelectSeq(block.parts, LAMBDA q : q.kind = kind)
    IN  [j \in 1..Len(ps) |-> ps[j].txt]

MsgsOfKind(kind) == SelectSeq(stderr, LAMBDA m : m.kind = kind)

IsPrefix(s, t) == Len(s) <= Len(t) /\ s = SubSeq(t, 1, Len(s))

\* the espeak calls made for the cue at 0-based index k
CallsAt(k) == SelectSeq(ipaLog, LAMBDA e : e.idx = k)

\* the sanitizer as the specification states it: remove the tags, then trim
sanitize_contract(text) == Strip(SubTagsFrom(text, 1))

\* a fatal condition has occurred in this run
FatalCondition ==
    \/ argc = 3
    \/ dl \in {"fail", "missing"}
    \/ dl = "ok" /\ SubPath(l1_code) \notin produced
    \/ counted # "no" /\ Len(cues1) # Len(cues2)
    \/ \E k \in 1..Len(ipaLog) : ipaLog[k].res.kind = "missing"

\* a written document is the whole document of this run
FullDocument(doc) ==
    /\ doc = Document(html_content)
    /\ Len(Blocks(doc.body)) = Len(cues1)
    /\ Len(cues1) = 0 => doc.body = <<Elem("no_cues", <<>>)>>

---------------------------------------------------------------------------
(* C1 *)

\* C1: whichever fatal condition occurs (wrong argument count, downloader
\* missing or failing, primary file missing, phonemizer missing at any cue,
\* cue-count mismatch), the process ends with a non-zero status and nothing
\* on standard output; the document is written exactly once, in full, and
\* only on a run that reaches the end with status 0.
C1_FatalMeansNoOutput ==
    /\ FatalCondition => exit_status = 1 /\ stdout = <<>>
    /\ exit_status \notin {-1, 0} => stdout = <<>>
    /\ Len(stdout) <= 1
    /\ stdout # <<>> => exit_status = 0 /\ ~FatalCondition /\ FullDocument(stdout[1])
    /\ exit_status = 0 => Len(stdout) = 1
    /\ pc = "exited" => exit_status \in {0, 1}

\* the phonemizer went missing after a first block had been rendered, and the
\* process has ended
C1_Witness ==
    /\ pc = "exited"
    /\ html_content # <<>>
    /\ \E k \in 1..Len(ipaLog) : ipaLog[k].res.kind = "missing"

---------------------------------------------------------------------------
(* C2 *)

\* the k-th block of body is built from primary cue k and secondary cue k
BuiltFromCue(block, k) ==
    /\ PartTexts(block, "b") =
          (IF clean_text(cues1[k][2]) # <<>> THEN <<clean_text(cues1[k][2])>> ELSE <<>>)
    /\ PartTexts(block, "l2") =
          (IF clean_text(cues2[k][2]) # <<>> THEN <<clean_text(cues2[k][2])>> ELSE <<>>)

\* C2: for a primary and a secondary cue sequence of equal length N >= 1 the
\* merge produces exactly N paragraph blocks and N-1 separators: block k is
\* built from primary cue k and secondary cue k, a separator follows every
\* block but the last, nothing follows the last.  While the loop runs, the
\* list holds one block per finished index.
C2_BlocksAndSeparators ==
    LET N == Len(cues1)
    IN  /\ counted = "pass" =>
              /\ Len(Blocks(html_content)) = i
              /\ Len(OfKind(html_content, "hr")) = (IF i = N /\ N > 0 THEN N - 1 ELSE i)
        /\ stdout # <<>> /\ N >= 1 =>
              LET body == stdout[1].body
              IN  /\ Len(cues2) = N
                  /\ Len(Blocks(body)) = N
                  /\ Len(OfKind(body, "hr")) = N - 1
                  /\ \A j \in 1..Len(body) :
                        body[j].kind = "p" =>
                            LET k == Len(Blocks(SubSeq(body, 1, j)))
                            IN  /\ BuiltFromCue(body[j], k)
                                /\ k < N => j < Len(body) /\ body[j + 1].kind = "hr"
                                /\ k = N => j = Len(body)

\* a document of two or more blocks from two tracks whose first two primary
\* cues differ
C2_Witness ==
    /\ stdout # <<>>
    /\ l2_path # "None"
    /\ Len(cues1) >= 2
    /\ clean_text(cues1[1][2]) # clean_text(cues1[2][2])
    /\ clean_text(cues2[1][2]) # clean_text(cues2[2][2])

---------------------------------------------------------------------------
(* C3, under ExSpec *)

\* C3 as claimed: from a well-formed track of N cues the cue pattern returns
\* N records in input order, record k holding the header line (captured with
\* its line feed) and the raw text of cue k and nothing else.
C3_RecordsVerbatim ==
    exPc = "done" =>
        /\ Len(exOut) = Len(exCues)
        /\ \A k \in 1..Len(exCues) :
              /\ exOut[k][1] = exCues[k].header \o <<"nl">>
              /\ exOut[k][2] = exCues[k].text

\* C3, amended: as claimed, except that when the input ends with one line
\* feed after the last cue's last line, the last record's text carries that
\* line feed too.
C3_RecordsVerbatimButLastLineFeed ==
    exPc = "done" =>
        /\ Len(exOut) = Len(exCues)
        /\ \A k \in 1..Len(exCues) :
              /\ exOut[k][1] = exCues[k].header \o <<"nl">>
              /\ exOut[k][2] =
                    exCues[k].text
                      \o (IF k = Len(exCues) /\ exTail = <<"nl">> THEN <<"nl">> ELSE <<>>)

\* three cues, one of two lines, one whose text holds a timing prefix, behind
\* a preamble, the input ending with one line feed
C3_Witness ==
    /\ exPc = "done"
    /\ Len(exCues) = 3
    /\ Len(exOut) = 3
    /\ exTail = <<"nl">>
    /\ exIn[1] # "T"
    /\ exCues[1].text = <<"a", "nl", "b">>
    /\ exCues[2].text = <<"b", "T", "nl", "a">>

---------------------------------------------------------------------------
(* C4, under SanSpec *)

\* C4: the sanitizer is idempotent, and a sanitized text neither begins nor
\* ends with whitespace.
C4_SanitizerIdempotent ==
    sanPc = "twice" =>
        /\ sanOut[2] = sanOut[1]
        /\ sanOut[1] # <<>> =>
              /\ sanOut[1][1] \notin Whitespace
              /\ sanOut[1][Len(sanOut[1])] \notin Whitespace

---------------------------------------------------------------------------
(* C5 *)

\* the phonetic text of the cue at 0-based index k: what the call for it
\* returned, nothing if there was no call
PhoneticAt(k) == IF CallsAt(k) = <<>> THEN <<>> ELSE IpaText(CallsAt(k)[1].res)

\* the layout the specification gives a block
Layout(primary, phonetic, secondary) ==
    (IF primary # <<>> THEN <<Part("b", primary)>> ELSE <<>>)
    \o (IF phonetic # <<>> THEN <<Part("br", <<>>), Part("ipa", phonetic)>> ELSE <<>>)
    \o (IF secondary # <<>> THEN <<Part("br", <<>>), Part("l2", secondary)>> ELSE <<>>)

\* C5: every rendered block is one paragraph holding, in this order, the bold
\* primary line iff the primary text is non-empty, the phonetic span iff the
\* phonetic text is non-empty, the secondary line iff the secondary text is
\* non-empty, one <br> before each phonetic or secondary line present; the
\* texts are those of the sanitizer contract, so a cue of markup and
\* whitespace only counts as empty; a block of three empty texts is still
\* there.
C5_BlockLayout ==
    counted = "pass" =>
        /\ Len(Blocks(html_content)) = i
        /\ \A k \in 1..Len(Blocks(html_content)) :
              Blocks(html_content)[k].parts =
                  Layout(sanitize_contract(cues1[k][2]),
                         PhoneticAt(k - 1),
                         sanitize_contract(cues2[k][2]))

---------------------------------------------------------------------------
(* C6 *)

Failed(e) == e.res.kind \in {"fail", "error"}

NamesLanguage(m) == l1_code \in Range(m.args)

Warnings == SelectSeq(stderr, LAMBDA m : m.kind \in {"WARNING_ESPEAK_FAILED",
                                                    "WARNING_IPA_UNEXPECTED"})

\* the phonemizer failed for exactly one cue and succeeded for every other
\* cue it was called for
OneCueFailed ==
    /\ Cardinality({k \in 1..Len(ipaLog) : Failed(ipaLog[k])}) = 1
    /\ \A k \in 1..Len(ipaLog) : Failed(ipaLog[k]) \/ ipaLog[k].res.kind = "ok"

\* C6 as claimed: when the phonemizer fails for the cue at one index and
\* succeeds for the others, only that block omits the phonetic line, every
\* other block with non-empty primary text keeps it, a warning naming the
\* primary language code is written, the document has one block per cue and
\* the process exits with status 0.
C6_OneFailureOneWarningNamingLanguage ==
    Exiting /\ counted = "pass" /\ OneCueFailed =>
        /\ exit_status = 0
        /\ Len(stdout) = 1
        /\ Len(Blocks(stdout[1].body)) = Len(cues1)
        /\ \A k \in 1..Len(cues1) :
              LET block == Blocks(stdout[1].body)[k]
              IN  IF CallsAt(k - 1) # <<>> /\ Failed(CallsAt(k - 1)[1])
                  THEN ~HasPart(block, "ipa")
                  ELSE HasPart(block, "b") => HasPart(block, "ipa")
        /\ \E j \in 1..Len(Warnings) : NamesLanguage(Warnings[j])

\* C6, amended: a failed call (non-zero exit or another unexpected error) for
\* a cue never ends the run: the loop goes on with the next cue, the block of
\* that cue is rendered without the phonetic line, every block whose call
\* succeeded holds the normalized output as its phonetic line if that output
\* is non-empty and no phonetic line if it is empty; each failed call writes
\* one warning, which names the primary language code when espeak exited
\* non-zero and does not name it for another unexpected error; a run without
\* a missing phonemizer ends with one block per cue and status 0.
C6_FailureIsCueLocal ==
    counted = "pass" =>
        /\ \A n \in 1..Len(ipaLog) :
              LET e == ipaLog[n]
              IN  /\ Failed(e) =>
                        /\ i > e.idx
                        /\ ~HasPart(Blocks(html_content)[e.idx + 1], "ipa")
                  /\ e.res.kind = "ok" =>
                        /\ i > e.idx
                        /\ PartTexts(Blocks(html_content)[e.idx + 1], "ipa") =
                              (IF NormalizeIpa(e.res.out) # <<>>
                               THEN <<NormalizeIpa(e.res.out)>> ELSE <<>>)
        /\ [n \in 1..Len(Warnings) |-> Warnings[n].kind] =
              LET failed == SelectSeq(ipaLog, Failed)
              IN  [n \in 1..Len(failed) |->
                      IF failed[n].res.kind = "fail" THEN "WARNING_ESPEAK_FAILED"
                      ELSE "WARNING_IPA_UNEXPECTED"]
        /\ \A n \in 1..Len(Warnings) :
              NamesLanguage(Warnings[n]) <=> Warnings[n].kind = "WARNING_ESPEAK_FAILED"
        /\ Exiting /\ (\A n \in 1..Len(ipaLog) : ipaLog[n].res.kind # "missing") =>
              /\ exit_status = 0
              /\ Len(stdout) = 1
              /\ Len(Blocks(stdout[1].body)) = Len(cues1)

\* a finished run in which a call failed and a later call returned a
\* non-empty transcription
C6_Witness ==
    /\ exit_status = 0
    /\ stdout # <<>>
    /\ \E m, n \in 1..Len(ipaLog) :
          /\ m < n
          /\ Failed(ipaLog[m])
          /\ ipaLog[n].res.kind = "ok"
          /\ NormalizeIpa(ipaLog[n].res.out) # <<>>

---------------------------------------------------------------------------
(* C7 *)

\* the downloader succeeded and wrote the primary file but no secondary file
SecondaryAbsent ==
    /\ dl = "ok"
    /\ SubPath(l1_code) \in produced
    /\ SubPath(l2_code) \notin produced

NoSecondaryLine ==
    \A k \in 1..Len(Blocks(html_content)) : ~HasPart(Blocks(html_content)[k], "l2")

\* C7 as claimed: with the secondary file absent the run never aborts with a
\* cue-count mismatch, warns, takes N empty placeholders, renders N blocks
\* without a secondary line and exits with status 0.
C7_SecondaryAbsentExitsZero ==
    SecondaryAbsent /\ Exiting =>
        /\ counted = "pass"
        /\ MsgsOfKind("WARNING_L2_NOT_FOUND") # <<>>
        /\ cues2 = [k \in 1..Len(cues1) |-> <<<<>>, <<>>>>]
        /\ NoSecondaryLine
        /\ exit_status = 0
        /\ Len(stdout) = 1
        /\ Len(Blocks(stdout[1].body)) = Len(cues1)

\* C7, amended: as claimed, except that the run exits with status 0 only if
\* the phonemizer is not missing; if it is missing at a cue with non-empty
\* text the run ends there with status 1 and no document.
C7_SecondaryAbsentNoMismatch ==
    SecondaryAbsent =>
        /\ counted # "fail"
        /\ MsgsOfKind("WARNING_L2_NOT_FOUND") = <<Msg("WARNING_L2_NOT_FOUND", <<l2_code>>)>>
        /\ counted = "pass" => cues2 = [k \in 1..Len(cues1) |-> <<<<>>, <<>>>>]
        /\ NoSecondaryLine
        /\ Exiting =>
              IF \E n \in 1..Len(ipaLog) : ipaLog[n].res.kind = "missing"
              THEN exit_status = 1 /\ stdout = <<>>
              ELSE /\ exit_status = 0
                   /\ Len(stdout) = 1
                   /\ Len(Blocks(stdout[1].body)) = Len(cues1)
                   /\ \A k \in 1..Len(cues1) :
                         ~HasPart(Blocks(stdout[1].body)[k], "l2")

\* a document of two or more blocks written with the secondary file absent
C7_Witness ==
    /\ SecondaryAbsent
    /\ exit_status = 0
    /\ stdout # <<>>
    /\ Len(cues1) >= 2

---------------------------------------------------------------------------
(* C8 *)

\* C8 as claimed: on unequal cue counts the reported error names both counts.
C8_MismatchNamesBothCounts ==
    counted = "fail" =>
        \E n \in 1..Len(stderr) :
            /\ stderr[n].kind = "FATAL_CUE_COUNTS"
            /\ ToString(Len(cues1)) \in Range(stderr[n].args)
            /\ ToString(Len(cues2)) \in Range(stderr[n].args)

\* C8, amended: on unequal cue counts the merge fails fast (status 1, before
\* any phonemizer call, any block and any output) with one fixed error
\* message, which names neither count.
C8_MismatchFailsFast ==
    /\ counted # "no" /\ Len(cues1) # Len(cues2) => counted = "fail"
    /\ counted = "fail" =>
          /\ Len(cues1) # Len(cues2)
          /\ exit_status = 1
          /\ ipaLog = <<>>
          /\ html_content = <<>>
          /\ stdout = <<>>
          /\ stderr[Len(stderr)] = Msg("FATAL_CUE_COUNTS", <<>>)
          /\ Len(MsgsOfKind("FATAL_CUE_COUNTS")) = 1

\* the run ended on two tracks of different, non-zero cue counts
C8_Witness ==
    /\ pc = "exited"
    /\ counted = "fail"
    /\ Len(cues1) > Len(cues2)
    /\ Len(cues2) > 0

---------------------------------------------------------------------------
(* C9 *)

\* C9: on every exit after the scratch directory was created, every file the
\* downloader wrote is in the temporary-file list, so the exit handler tries
\* to remove each of them and then the directory.
C9_EveryProducedFileRegistered ==
    pc = "exited" /\ TEMP_DIR # "None" =>
        /\ produced \subseteq Range(TEMP_FILES)
        /\ produced \subseteq Range(removed.paths)

---------------------------------------------------------------------------
(* C10 *)

\* the primary cues whose sanitized text (clean_text_l1) is non-empty, by
\* index
ExpectedCalls ==
    LET all == [k \in 1..Len(cues1) |-> [idx |-> k - 1, text |-> clean_text(cues1[k][2])]]
    IN  SelectSeq(all, LAMBDA c : c.text # <<>>)

Calls == [n \in 1..Len(ipaLog) |-> [idx |-> ipaLog[n].idx, text |-> ipaLog[n].text]]

\* C10 as claimed: in any run that passes the cue-count check the phonemizer
\* invocations are exactly the primary cues with non-empty sanitized text, in
\* index order, one each; none in a run that fails the check.
C10_CallsAreExactlyNonEmptyCues ==
    /\ counted # "pass" => ipaLog = <<>>
    /\ Exiting /\ counted = "pass" => Calls = ExpectedCalls

\* C10, amended: in a run that passes the cue-count check the invocations
\* made so far are the primary cues with non-empty sanitized text below the
\* loop index, in index order, one each; a run that ends with status 0 has
\* made all of them; a run ended by a missing phonemizer has made them up to
\* and including the cue where espeak was missing, and no call follows a
\* missing one; none in a run that fails the check.
C10_CallsArePrefixOfNonEmptyCues ==
    /\ counted # "pass" => ipaLog = <<>>
    /\ counted = "pass" =>
          /\ IsPrefix(Calls, ExpectedCalls)
          /\ \A n \in 1..Len(ipaLog) :
                ipaLog[n].res.kind = "missing" => n = Len(ipaLog) /\ exit_status = 1
          /\ exit_status = -1 =>
                Calls = SelectSeq(ExpectedCalls, LAMBDA c : c.idx < i)
          /\ exit_status = 0 => Calls = ExpectedCalls
          /\ exit_status = 1 =>
                /\ ipaLog # <<>>
                /\ ipaLog[Len(ipaLog)].res.kind = "missing"
                /\ Calls = SelectSeq(ExpectedCalls, LAMBDA c : c.idx <= i)

\* a finished run that made no call for its first cue, of empty text, and one
\* for its second
C10_Witness ==
    /\ exit_status = 0
    /\ Len(cues1) = 2
    /\ clean_text(cues1[1][2]) = <<>>
    /\ Len(ipaLog) = 1
    /\ ipaLog[1].idx = 1

=============================================================================
